---- MODULE Spec2Model ----
(***************************************************************************)
(* Model of MAL_Scrape.py: get_with_retry (retry with exponential backoff  *)
(* on HTTP 429) and main (sequential paginated crawl, extraction of one    *)
(* record per item, CSV output).  The endpoint is the environment: every   *)
(* requests.get returns a nondeterministically chosen response.            *)
(* Durations are in milliseconds; a score is held in tenths.               *)
(***************************************************************************)
EXTENDS Integers, Sequences, FiniteSets, TLC

\* ---- bounds of the environment -----------------------------------------
MaxPages == 2
MaxItems == 1

\* ---- program constants (MAL_Scrape.py:7-8) ------------------------------
REQUEST_DELAY == 500
MAX_RETRIES == 5

\* max_retries parameter of get_with_retry; main always uses the default
max_retries == MAX_RETRIES

\* ---- values ------------------------------------------------------------
\* JSON null / Python None is the empty sequence, a present value v is <<v>>
None == <<>>
Some(v) == <<v>>

\* status codes the endpoint may answer with
Statuses == {200, 204, 404, 429, 500}

\* raw items of the "data" list; complete = FALSE is an item lacking one of
\* the keys process_page reads
ItemNull ==
  [title |-> "Null Show", year |-> None, score |-> None, scored_by |-> None,
   members |-> None, rank |-> None, genres |-> <<>>, demographics |-> <<>>,
   complete |-> TRUE]
ItemFull ==
  [title |-> "Full Show", year |-> Some(2020), score |-> Some(75),
   scored_by |-> Some(0), members |-> Some(1200), rank |-> Some(1),
   genres |-> <<"Action", "Drama">>, demographics |-> <<"Shounen">>,
   complete |-> TRUE]
ItemBad ==
  [title |-> "Bad Show", year |-> None, score |-> None, scored_by |-> None,
   members |-> None, rank |-> None, genres |-> <<>>, demographics |-> <<>>,
   complete |-> FALSE]
Items == {ItemNull, ItemFull, ItemBad}

ItemLists == UNION {[1..n -> Items] : n \in 0..MaxItems}

\* body of a response as response.json() returns it
NoBody ==
  [has_pagination |-> FALSE, last_visible_page |-> 0, has_data |-> FALSE,
   items |-> <<>>]
Bodies ==
  {[has_pagination |-> hp, last_visible_page |-> IF hp THEN t ELSE 0,
    has_data |-> hd, items |-> IF hd THEN l ELSE <<>>] :
      hp \in BOOLEAN, t \in 0..MaxPages, hd \in BOOLEAN, l \in ItemLists}
Responses ==
  {[status |-> 200, body |-> b] : b \in Bodies}
    \cup {[status |-> s, body |-> NoBody] : s \in Statuses \ {200}}
NoResponse == [status |-> 0, body |-> NoBody]

\* total_pages before line 47 has bound it
Unbound == -1

VARIABLES
  pc,             \* position of main / get_with_retry
  page,           \* params["page"]
  attempt,        \* loop variable of get_with_retry
  response,       \* value of the latest requests.get
  total_pages,
  all_anime,      \* accumulator
  csv,            \* rows of tv_anime_ratings.csv, <<>> while not written
  error,          \* exception that ended main, "none" otherwise
  call_statuses,  \* history: statuses received by the current call
  call_sleeps,    \* history: backoff sleeps of the current call
  requested,      \* history: page cursors requests.get was called with
  served,         \* history: item lists of the 200 responses, by page
  reported_total, \* history: last_visible_page of the page-1 response
  delay_log,      \* history: pages preceded by the inter-request sleep
  progress_log,   \* history: progress lines printed
  prior_requests, \* history (SpecCounted): requests made for earlier pages
  prior_throttled \* history (SpecCounted): every earlier call got
                  \* max_retries - 1 answers 429

vars ==
  <<pc, page, attempt, response, total_pages, all_anime, csv, error,
    call_statuses, call_sleeps, requested, served, reported_total,
    delay_log, progress_log, prior_requests, prior_throttled>>

hist == <<call_statuses, call_sleeps, requested, served, reported_total,
          delay_log, progress_log, prior_requests, prior_throttled>>

\* data = response.json() of the response get_with_retry returned.  main's
\* previous response and data are dead once the next call starts and are
\* not kept.
data == response.body

\* ---- pure helpers --------------------------------------------------------
RECURSIVE Join(_)
\* ", ".join(names)
Join(names) ==
  IF names = <<>> THEN ""
  ELSE IF Len(names) = 1 THEN names[1]
  ELSE names[1] \o ", " \o Join(Tail(names))

\* an extraction that defaults a missing score to 0
ExtractRecordDefaultZero(anime) ==
  [title |-> anime.title, year |-> anime.year,
   score |-> IF anime.score = None THEN Some(0) ELSE anime.score,
   scored_by |-> anime.scored_by, members |-> anime.members,
   rank |-> anime.rank, genres |-> Join(anime.genres),
   demographics |-> Join(anime.demographics)]

\* the dict built by process_page for one item
ExtractRecord(anime) ==
  [title |-> anime.title, year |-> anime.year, score |-> anime.score,
   scored_by |-> anime.scored_by, members |-> anime.members,
   rank |-> anime.rank, genres |-> Join(anime.genres),
   demographics |-> Join(anime.demographics)]

RECURSIVE FirstBad(_)
\* index of the first item whose lookup raises KeyError, 0 if none
FirstBad(page_data) ==
  IF page_data = <<>> THEN 0
  ELSE IF ~page_data[1].complete THEN 1
  ELSE LET r == FirstBad(Tail(page_data)) IN IF r = 0 THEN 0 ELSE r + 1

\* records appended by process_page before it returns or raises
Appended(page_data) ==
  LET n == IF FirstBad(page_data) = 0 THEN Len(page_data)
           ELSE FirstBad(page_data) - 1
  IN [i \in 1..n |-> ExtractRecord(page_data[i])]

\* whether process_page(page_data) raises KeyError
PageRaisesOnEmpty(page_data) == page_data = <<>> \/ FirstBad(page_data) # 0

\* a page processor that skips incomplete items silently
PageNeverRaises(page_data) == FALSE

PageRaises(page_data) == FirstBad(page_data) # 0

\* an accumulator that puts the newest page first
AppendPageFront(acc, page_data) == Appended(page_data) \o acc

\* all_anime after process_page(page_data)
AppendPage(acc, page_data) == acc \o Appended(page_data)

\* number of 429 answers in a sequence of statuses
RECURSIVE Count429(_)
Count429(ss) ==
  IF ss = <<>> THEN 0
  ELSE (IF ss[1] = 429 THEN 1 ELSE 0) + Count429(Tail(ss))

\* a backoff that grows linearly instead of doubling
WaitLinear(a) == REQUEST_DELAY * 2 * a

\* wait = REQUEST_DELAY * (2 ** attempt)
Wait(a) == REQUEST_DELAY * (2 ^ a)

\* a retry loop without an upper limit
HasNextAttemptAlways(a) == TRUE

\* a retry loop that runs one attempt too many
HasNextAttemptInclusive(a) == a <= max_retries

\* range(1, max_retries + 1) has a value after a
HasNextAttempt(a) == a < max_retries

\* a check that treats only server errors as fatal
RaisesForServerErrorOnly(status) == status >= 500

\* response.raise_for_status() raises
RaisesForStatus(status) == status >= 400

\* a page loop that runs one page too far
LoopHasNextInclusive(p, total) == p <= total

\* range(2, total_pages + 1) has a value after params["page"] = p
LoopHasNext(p, total) == p + 1 <= total

\* csv.DictWriter: None is written as '', an int as str(int)
IntField(v) == IF v = None THEN "" ELSE ToString(v[1])
\* a float as repr(float); the value is held in tenths
FloatField(v) ==
  IF v = None THEN ""
  ELSE ToString(v[1] \div 10) \o "." \o ToString(v[1] % 10)

fieldnames ==
  <<"title", "year", "score", "scored_by", "members", "rank", "genres",
    "demographics">>

CsvRow(rec) ==
  <<rec.title, IntField(rec.year), FloatField(rec.score),
    IntField(rec.scored_by), IntField(rec.members), IntField(rec.rank),
    rec.genres, rec.demographics>>

\* writer.writeheader(); writer.writerows(all_anime)
CsvFile(rows) == <<fieldnames>> \o [i \in 1..Len(rows) |-> CsvRow(rows[i])]

\* ---- control ------------------------------------------------------------
\* an exception that is recorded and swallowed: the page loop goes on
RaiseAndContinue(e) == pc' = "loop" /\ error' = e

\* an exception handled by saving what was collected so far
RaiseAndSave(e) == pc' = "save" /\ error' = e

\* an exception leaves main: nothing catches it
Raise(e) == pc' = "failed" /\ error' = e

\* the for loop of get_with_retry moves to its next attempt, or is exhausted
NextAttempt ==
  IF HasNextAttempt(attempt)
  THEN attempt' = attempt + 1 /\ pc' = "call" /\ error' = error
  ELSE attempt' = attempt /\ Raise("RuntimeError")

Init ==
  /\ pc = "call"
  /\ page = 1
  /\ attempt = 1
  /\ response = NoResponse
  /\ total_pages = Unbound
  /\ all_anime = <<>>
  /\ csv = <<>>
  /\ error = "none"
  /\ call_statuses = <<>>
  /\ call_sleeps = <<>>
  /\ requested = {}
  /\ served = <<>>
  /\ reported_total = Unbound
  /\ delay_log = <<>>
  /\ progress_log = <<>>
  /\ prior_requests = 0
  /\ prior_throttled = TRUE

\* get_with_retry, lines 15-26: one requests.get and the dispatch on status
Request ==
  /\ pc = "call"
  /\ \E resp \in Responses :
       /\ response' = resp
       /\ call_statuses' = Append(call_statuses, resp.status)
       /\ requested' = requested \cup {page}
       /\ IF resp.status = 200
          THEN /\ pc' = IF page = 1 THEN "parse_first" ELSE "process"
               /\ served' = Append(served, resp.body.items)
               /\ reported_total' =
                    IF page = 1 /\ resp.body.has_pagination
                    THEN resp.body.last_visible_page ELSE reported_total
               /\ UNCHANGED <<attempt, error>>
          ELSE /\ UNCHANGED <<served, reported_total>>
               /\ IF resp.status = 429
                  THEN pc' = "backoff" /\ UNCHANGED <<attempt, error>>
                  ELSE IF RaisesForStatus(resp.status)
                       THEN Raise("HTTPError") /\ UNCHANGED attempt
                       ELSE NextAttempt
  /\ UNCHANGED <<page, total_pages, all_anime, csv, call_sleeps,
                 delay_log, progress_log, prior_requests, prior_throttled>>

\* get_with_retry, lines 21-24: the backoff sleep, then continue
Backoff ==
  /\ pc = "backoff"
  /\ call_sleeps' = Append(call_sleeps, Wait(attempt))
  /\ NextAttempt
  /\ UNCHANGED <<page, response, total_pages, all_anime, csv,
                 call_statuses, requested, served, reported_total,
                 delay_log, progress_log, prior_requests, prior_throttled>>

\* main, lines 45-48: parse page 1 and read the total page count
ParseFirst ==
  /\ pc = "parse_first"
  /\ IF data.has_pagination
     THEN /\ total_pages' = data.last_visible_page
          /\ pc' = "process"
          /\ error' = error
     ELSE /\ total_pages' = total_pages
          /\ Raise("KeyError")
  /\ UNCHANGED <<page, attempt, response, all_anime, csv, hist>>

\* main, line 65 and lines 73-75: process_page(data["data"])
ProcessPage ==
  /\ pc = "process"
  /\ IF ~data.has_data
     THEN all_anime' = all_anime /\ Raise("KeyError")
     ELSE /\ all_anime' = AppendPage(all_anime, data.items)
          /\ IF PageRaises(data.items)
             THEN Raise("KeyError")
             ELSE /\ pc' = IF page = 1 THEN "loop" ELSE "progress"
                  /\ error' = error
  /\ UNCHANGED <<page, attempt, response, total_pages, csv, hist>>

\* a loop body that prints no progress line
ProgressSilent ==
  /\ pc = "progress"
  /\ pc' = "loop"
  /\ UNCHANGED <<page, attempt, response, total_pages, all_anime, csv,
                 error, hist>>

\* main, lines 78-87: the progress line of the loop body
Progress ==
  /\ pc = "progress"
  /\ progress_log' =
       Append(progress_log,
              [page |-> page, total |-> total_pages,
               remaining |-> total_pages - page])
  /\ pc' = "loop"
  /\ UNCHANGED <<page, attempt, response, total_pages, all_anime, csv,
                 error, call_statuses, call_sleeps, requested, served,
                 reported_total, delay_log, prior_requests, prior_throttled>>

\* a retry budget shared by the whole crawl: the attempt counter is kept
NextPageKeepAttempt ==
  /\ pc = "loop"
  /\ LoopHasNext(page, total_pages)
  /\ delay_log' = Append(delay_log, [before |-> page + 1, ms |-> REQUEST_DELAY])
  /\ page' = page + 1
  /\ attempt' = attempt
  /\ call_statuses' = <<>>
  /\ call_sleeps' = <<>>
  /\ prior_requests' = prior_requests + Len(call_statuses)
  /\ prior_throttled' =
       (prior_throttled /\ Count429(call_statuses) = max_retries - 1)
  /\ pc' = "call"
  /\ UNCHANGED <<response, total_pages, all_anime, csv, error,
                 requested, served, reported_total, progress_log>>

\* a loop body that goes to the next page without sleeping
NextPageNoDelay ==
  /\ pc = "loop"
  /\ LoopHasNext(page, total_pages)
  /\ page' = page + 1
  /\ attempt' = 1
  /\ call_statuses' = <<>>
  /\ call_sleeps' = <<>>
  /\ pc' = "call"
  /\ UNCHANGED <<response, total_pages, all_anime, csv, error,
                 requested, served, reported_total, delay_log, progress_log,
                 prior_requests, prior_throttled>>

\* main, lines 68-72: next iteration: sleep, set the cursor, enter the call
NextPage ==
  /\ pc = "loop"
  /\ LoopHasNext(page, total_pages)
  /\ delay_log' = Append(delay_log, [before |-> page + 1, ms |-> REQUEST_DELAY])
  /\ page' = page + 1
  /\ attempt' = 1
  /\ call_statuses' = <<>>
  /\ call_sleeps' = <<>>
  /\ pc' = "call"
  /\ UNCHANGED <<response, total_pages, all_anime, csv, error,
                 requested, served, reported_total, progress_log,
                 prior_requests, prior_throttled>>

\* main, lines 68-72, with the requests of the finished call accounted for
NextPageCounted ==
  /\ pc = "loop"
  /\ LoopHasNext(page, total_pages)
  /\ delay_log' = Append(delay_log, [before |-> page + 1, ms |-> REQUEST_DELAY])
  /\ page' = page + 1
  /\ attempt' = 1
  /\ call_statuses' = <<>>
  /\ call_sleeps' = <<>>
  /\ prior_requests' = prior_requests + Len(call_statuses)
  /\ prior_throttled' =
       (prior_throttled /\ Count429(call_statuses) = max_retries - 1)
  /\ pc' = "call"
  /\ UNCHANGED <<response, total_pages, all_anime, csv, error,
                 requested, served, reported_total, progress_log>>

\* main, line 68: the loop is over
LoopExit ==
  /\ pc = "loop"
  /\ ~LoopHasNext(page, total_pages)
  /\ pc' = "save"
  /\ UNCHANGED <<page, attempt, response, total_pages, all_anime, csv,
                 error, hist>>

\* main, lines 90-114: write the CSV file
Save ==
  /\ pc = "save"
  /\ csv' = CsvFile(all_anime)
  /\ pc' = "done"
  /\ UNCHANGED <<page, attempt, response, total_pages, all_anime,
                 error, hist>>

Next ==
  \/ Request
  \/ Backoff
  \/ ParseFirst
  \/ ProcessPage
  \/ Progress
  \/ NextPage
  \/ LoopExit
  \/ Save

Spec == Init /\ [][Next]_vars

\* the same program, with the history variables prior_requests and
\* prior_throttled kept up to date across calls
NextCounted ==
  \/ Request
  \/ Backoff
  \/ ParseFirst
  \/ ProcessPage
  \/ Progress
  \/ NextPageCounted
  \/ LoopExit
  \/ Save

SpecCounted == Init /\ [][NextCounted]_vars

\* ---- properties ---------------------------------------------------------
\* get_with_retry is running (between its first line and its return/raise)
InCall == pc \in {"call", "backoff"}

\* the statuses of a call answered n times with 429 and then with 200
ThrottledThenOk(n) == [k \in 1..(n + 1) |-> IF k <= n THEN 429 ELSE 200]

AllThrottled ==
  call_statuses # <<>> /\ \A k \in DOMAIN call_statuses : call_statuses[k] = 429

\* C1: a call answered N < max_retries times with 429 and then with 200
\* has made N+1 requests (it is at attempt N+1 and has returned), has slept
\* N times, the k-th sleep lasting REQUEST_DELAY * 2^k, and has returned
\* the 200 response.
C1_BackoffThenSuccess ==
  \A N \in 0..(max_retries - 1) :
    call_statuses = ThrottledThenOk(N) =>
      /\ ~InCall
      /\ attempt = N + 1
      /\ call_sleeps = [k \in 1..N |-> REQUEST_DELAY * (2 ^ k)]
      /\ response.status = 200
      /\ error \notin {"RuntimeError", "HTTPError"}

C1_Witness ==
  /\ call_statuses = ThrottledThenOk(max_retries - 1)
  /\ Len(call_sleeps) = max_retries - 1
  /\ pc = "process"

\* C2: a call whose every request was answered with 429 ends with the
\* rate-limit RuntimeError after exactly max_retries requests, and no call
\* ever issues more than max_retries requests.
C2_ExhaustionAfterMaxRetries ==
  /\ Len(call_statuses) <= max_retries
  /\ (AllThrottled /\ ~InCall) =>
       /\ pc = "failed"
       /\ error = "RuntimeError"
       /\ Len(call_statuses) = max_retries

C2_Witness ==
  /\ AllThrottled
  /\ Len(call_statuses) = max_retries
  /\ error = "RuntimeError"

\* C3: a response with a 4xx status other than 429, or a 5xx status, ends
\* the call with an HTTP error on that response: it is the last response of
\* the call, main has failed, and the call slept only after its 429 answers.
C3_HttpErrorIsImmediate ==
  (call_statuses # <<>>
     /\ call_statuses[Len(call_statuses)] >= 400
     /\ call_statuses[Len(call_statuses)] # 429) =>
    /\ pc = "failed"
    /\ error = "HTTPError"
    /\ Len(call_sleeps) = Count429(call_statuses)
    /\ response.status = call_statuses[Len(call_statuses)]

C3_Witness ==
  /\ error = "HTTPError"
  /\ Len(call_statuses) = 3
  /\ call_statuses[1] = 429
  /\ call_statuses[3] = 404
  /\ page = 2

\* ---- crawl-level helpers ------------------------------------------------
RECURSIVE Flat(_)
\* the item lists of a sequence of pages, concatenated in page order
Flat(pages) == IF pages = <<>> THEN <<>> ELSE pages[1] \o Flat(Tail(pages))

\* the records of a list of complete items, in item order
Records(items) == [i \in 1..Len(items) |-> ExtractRecord(items[i])]

Max(a, b) == IF a >= b THEN a ELSE b

Failed == error # "none"

\* C4: once the fetch of page p has ended in a fatal error, main is in its
\* failed state, only pages 1..p were ever requested or served, the
\* accumulator holds the records of pages below p and at most those page p
\* yielded before the error, and no further step is taken (so no later
\* request, no later record and no completion).
C4_FatalErrorAbortsCrawl ==
  /\ [](Failed =>
         /\ pc = "failed"
         /\ requested = 1..page
         /\ Len(served) <= page
         /\ \/ all_anime = Records(Flat(SubSeq(served, 1, page - 1)))
            \/ /\ Len(served) = page
               /\ all_anime = Records(Flat(SubSeq(served, 1, page - 1)))
                                \o Appended(served[page]))
  /\ [][~Failed]_vars

C4_Witness ==
  /\ pc = "failed"
  /\ error = "KeyError"
  /\ page = 1
  /\ total_pages = 2
  /\ served = <<(<<ItemBad>>)>>

\* C5: the CSV file exists only when main has completed without error,
\* every page 1..total_pages was served and the accumulator holds the
\* records of all served pages; whenever main has failed, no file has been
\* written, whatever the accumulator holds.
C5_NoPartialArtifact ==
  /\ csv # <<>> =>
       /\ pc = "done"
       /\ ~Failed
       /\ \A p \in 1..total_pages : p <= Len(served)
       /\ all_anime = Records(Flat(served))
       /\ Len(csv) = Len(all_anime) + 1
  /\ Failed => csv = <<>>

C5_Witness ==
  /\ pc = "failed"
  /\ error = "RuntimeError"
  /\ page = 2
  /\ all_anime = Records(<<ItemFull>>)
  /\ csv = <<>>

C7_EmptyPageIsValid ==
  [][(pc = "process" /\ data.has_data /\ data.items = <<>>) =>
       /\ all_anime' = all_anime
       /\ error' = "none"
       /\ pc' = IF page = 1 THEN "loop" ELSE "progress"]_vars

C7_Witness ==
  /\ pc = "call"
  /\ page = 2
  /\ served = <<(<<>>)>>
  /\ all_anime = <<>>
  /\ ~Failed

\* C8: when page 1 reports a total of 0 or 1, no inter-request delay is
\* taken, only page cursor 1 is ever requested, the loop head can only
\* leave the loop, and at completion the accumulator and the file hold
\* exactly the records of page 1.
C8_SinglePageCrawl ==
  total_pages \in {0, 1} =>
    /\ delay_log = <<>>
    /\ requested = {1}
    /\ page = 1
    /\ pc \in {"process", "loop", "save", "done", "failed"}
    /\ pc = "loop" => (ENABLED LoopExit /\ ~ENABLED NextPage)
    /\ pc \in {"save", "done"} => (~Failed /\ all_anime = Records(served[1]))
    /\ pc = "done" => csv = <<fieldnames>> \o
                               [i \in 1..Len(all_anime) |-> CsvRow(all_anime[i])]

C8_Witness ==
  /\ pc = "done"
  /\ total_pages = 0
  /\ all_anime = Records(<<ItemFull>>)
  /\ Len(csv) = 2

NumericFields == {"year", "score", "scored_by", "members", "rank"}

\* column of a field in the CSV file
Column(f) == CHOOSE c \in DOMAIN fieldnames : fieldnames[c] = f

\* C9: for every accumulated record and every optional numeric field, the
\* record holds None exactly when the raw item does and otherwise the raw
\* value itself, and the CSV field of the record is empty exactly when the
\* raw value is null.
C9_NullIsCarriedThrough ==
  LET raw == Flat(served) IN
    \A i \in 1..Len(all_anime) : \A f \in NumericFields :
      /\ raw[i][f] = None => all_anime[i][f] = None
      /\ raw[i][f] # None => all_anime[i][f] = raw[i][f]
      /\ csv # <<>> => ((csv[i + 1][Column(f)] = "") <=> (raw[i][f] = None))

C9_Witness ==
  /\ pc = "done"
  /\ served = <<(<<ItemNull>>), (<<ItemFull>>)>>
  /\ csv[2] = <<"Null Show", "", "", "", "", "", "", "">>
  /\ csv[3] = <<"Full Show", "2020", "7.5", "0", "1200", "1",
                "Action, Drama", "Shounen">>

\* number of progress lines printed for page p
Reported(p) ==
  Cardinality({k \in DOMAIN progress_log : progress_log[k].page = p})

\* page p was fetched and processed, and main has gone on to the call for
\* the next page or to completion
PageCompleted(p) ==
  /\ p <= Len(served)
  /\ \/ p < page
     \/ p = page /\ pc \in {"save", "done"}

\* C10 as stated: every completed page, page 1 included, has exactly one
\* progress line by the time the next page is requested or main completes.
C10_Original ==
  \A p \in 1..MaxPages : PageCompleted(p) => Reported(p) = 1

\* C10 amended: every completed page from page 2 on has exactly one
\* progress line by the time the next page is requested or main completes;
\* a progress line is printed only for a page already fetched and
\* processed, never twice, and never for page 1.
C10_ProgressAfterLaterPages ==
  /\ Reported(1) = 0
  /\ \A p \in 2..MaxPages :
       /\ PageCompleted(p) => Reported(p) = 1
       /\ Reported(p) <= 1
       /\ Reported(p) = 1 =>
            /\ p <= Len(served)
            /\ p <= page
            /\ p = page => pc \in {"loop", "save", "done"}
  /\ \A k \in DOMAIN progress_log : progress_log[k].page \in 2..MaxPages

C10_Witness ==
  /\ pc = "done"
  /\ total_pages = 2
  /\ progress_log = <<[page |-> 2, total |-> 2, remaining |-> 0]>>

\* main is past the handling of the 200 response held in response: the page
\* it was fetched for is still the current page
Handled == pc \in {"progress", "loop", "save", "done", "failed"}

\* a body lacking the pagination object, the item list or a key of an item
Malformed(b) == ~b.has_pagination \/ ~b.has_data \/ FirstBad(b.items) # 0

\* a body lacking what main reads from the response of page p
MalformedFor(p, b) ==
  (p = 1 /\ ~b.has_pagination) \/ ~b.has_data \/ FirstBad(b.items) # 0

\* C11 as stated: once main has handled a 200 response that lacks the
\* pagination object, the item list or an item key, on any page, main has
\* failed and no file is written.
C11_Original ==
  (response.status = 200 /\ Handled /\ Malformed(data)) =>
    (pc = "failed" /\ csv = <<>>)

\* C11 amended: a 200 response that lacks the item list or an item key (on
\* any page) or the pagination object (on page 1) makes main fail with
\* KeyError and no file is written; a 200 response of a later page that
\* lacks only the pagination object is handled like a well-formed one.
C11_MalformedPageIsFatal ==
  (response.status = 200 /\ Handled) =>
    IF MalformedFor(page, data)
    THEN pc = "failed" /\ error = "KeyError" /\ csv = <<>>
    ELSE ~Failed

C11_Witness ==
  /\ pc = "failed"
  /\ error = "KeyError"
  /\ page = 2
  /\ response.status = 200
  /\ data.has_pagination
  /\ ~data.has_data
  /\ all_anime = Records(<<ItemFull>>)
  /\ csv = <<>>

\* C12: at every moment the inter-request delays taken are exactly one of
\* REQUEST_DELAY before each of the pages 2..page and none before page 1,
\* however often a page was retried; and a delay is taken only at the loop
\* head, after the previous page was fetched and processed and before any
\* request for the next page.
C12_OneDelayPerLaterPage ==
  /\ [](delay_log =
          [k \in 1..(page - 1) |-> [before |-> k + 1, ms |-> REQUEST_DELAY]])
  /\ [][delay_log' # delay_log =>
          /\ pc = "loop"
          /\ Len(served) = page
          /\ page' = page + 1
          /\ page' \notin requested'
          /\ pc' = "call"]_vars

C12_Witness ==
  /\ pc = "process"
  /\ page = 2
  /\ call_statuses = ThrottledThenOk(2)
  /\ Len(call_sleeps) = 2
  /\ delay_log = <<[before |-> 2, ms |-> REQUEST_DELAY]>>

\* C13: the attempt counter counts only the requests of the current call;
\* a call whose first answer is 429 sleeps REQUEST_DELAY * 2 first; every
\* new call starts at attempt 1 with empty retry state; and when every
\* earlier call was throttled max_retries - 1 times, a call throttled
\* max_retries - 1 times and then answered with 200 still returns.
C13_RetryBudgetPerCall ==
  /\ [](/\ pc = "call" => attempt = Len(call_statuses) + 1
        /\ pc = "backoff" => attempt = Len(call_statuses)
        /\ (call_sleeps # <<>> /\ call_statuses[1] = 429) =>
             call_sleeps[1] = REQUEST_DELAY * 2
        /\ prior_throttled => prior_requests = (page - 1) * max_retries
        /\ (prior_throttled
              /\ call_statuses = ThrottledThenOk(max_retries - 1)) =>
             (~InCall /\ error \notin {"RuntimeError", "HTTPError"}))
  /\ [][page' # page =>
          (attempt' = 1 /\ call_statuses' = <<>> /\ call_sleeps' = <<>>)]_vars

C13_Witness ==
  /\ pc = "done"
  /\ total_pages = 2
  /\ prior_throttled
  /\ prior_requests = max_retries
  /\ call_statuses = ThrottledThenOk(max_retries - 1)
  /\ call_sleeps[1] = REQUEST_DELAY * 2

\* C14: main fails with the rate-limit RuntimeError only when the call
\* received max_retries answers, all of them 429; and an answer with any
\* status other than 200 and 429 ends the call with an HTTP error at once.
C14_OnlyThrottlingIsRetried ==
  /\ error = "RuntimeError" =>
       (AllThrottled /\ Len(call_statuses) = max_retries)
  /\ (call_statuses # <<>>
        /\ call_statuses[Len(call_statuses)] \notin {200, 429}) =>
       (pc = "failed" /\ error = "HTTPError")

\* C15: every backoff sleep of a call is followed by another request of
\* that call: the call never ends right after a sleep.
C15_SleepIsFollowedByRequest ==
  [][pc = "backoff" => pc' = "call"]_vars

\* requests.get calls made since the start of main
TotalRequests == prior_requests + Len(call_statuses)

\* steps main can still take before it leaves the current page
StepsInPage ==
  CASE pc = "call" -> 2 * (max_retries - attempt) + 7
    [] pc = "backoff" -> 2 * (max_retries - attempt) + 6
    [] pc = "parse_first" -> 5
    [] pc = "process" -> 4
    [] pc = "progress" -> 3
    [] pc = "loop" -> 2
    [] pc = "save" -> 1
    [] OTHER -> 0

\* an upper bound of StepsInPage plus the step to the next page
StepsPerPage == 2 * max_retries + 6

\* pages still to be fetched after the current one
PagesLeft ==
  IF pc \in {"done", "failed"} THEN 0
  ELSE IF total_pages = Unbound THEN MaxPages
  ELSE Max(total_pages, 1) - page

\* a measure that every step of main decreases
Rank == PagesLeft * StepsPerPage + StepsInPage

\* C16: main always terminates, completed or failed: every step decreases
\* a non-negative measure and a step is possible in every state that is
\* neither completed nor failed; and at every moment at most
\* max(T, 1) * max_retries requests have been issued, T the total reported
\* by page 1 (at most page * max_retries while T is not yet known).
C16_TerminatesWithinBudget ==
  /\ [](/\ Rank >= 0
        /\ pc \notin {"done", "failed"} => ENABLED NextCounted
        /\ pc \in {"done", "failed"} => ~ENABLED NextCounted
        /\ Len(call_statuses) <= max_retries
        /\ TotalRequests <= page * max_retries
        /\ total_pages # Unbound =>
             TotalRequests <= Max(total_pages, 1) * max_retries
        /\ page <= Max(total_pages, 1))
  /\ [][Rank' < Rank]_vars

C16_Witness ==
  /\ pc = "done"
  /\ total_pages = MaxPages
  /\ TotalRequests = MaxPages * max_retries

====
